---- MODULE Spec2Model ----
(***************************************************************************)
(* Model of ipi/engine/motion/dynamics.py: the Dynamics orchestrator       *)
(* (bind, step), the momentum constraints, and the family of integrators   *)
(* built on the recursive multiple-time-step (MTS) propagator.             *)
(*                                                                         *)
(* Real numbers (momenta, energies, time steps) are exact rationals        *)
(* <<numerator, denominator>>.  Collaborators that are not part of the     *)
(* file (force field, thermostat, barostat, normal modes, EDA) are         *)
(* reduced to what the file reads from them and writes to them.            *)
(***************************************************************************)
EXTENDS Integers, Sequences, FiniteSets, TLC

VARIABLES cfg, phase, p, eens, time, mts_time, stresscheck, nsteps, last, err, hist,
          dq, vir_zero, out, nsets

vars == <<cfg, phase, p, eens, time, mts_time, stresscheck, nsteps, last, err, hist,
          dq, vir_zero, out, nsets>>

(***************************************************************************)
(* Bounds of the model.                                                    *)
(***************************************************************************)
MaxNmts == 3
MaxLevels == 2
MaxBeads == 2
NAtoms == 2
MaxSteps == 2
MaxPat == 2
MaxInner == 6
MaxDt == 2
MaxSets == 2
MaxFixBeads == 4

(***************************************************************************)
(* Exact rational arithmetic.                                              *)
(***************************************************************************)
\* The arithmetic is written as functions: a function's argument is evaluated
\* once, where an operator's argument is evaluated at every occurrence.
Abs(x) == IF x < 0 THEN -x ELSE x

gcd[a \in Int, b \in Int] == IF b = 0 THEN a ELSE gcd[b, a % b]

reduce[n \in Int, d \in Int, g \in Int] == <<n \div g, d \div g>>

\* the fraction n/d in lowest terms, d > 0
norm[n \in Int, d \in Int] == IF n = 0 THEN <<0, 1>> ELSE reduce[n, d, gcd[Abs(n), d]]

Rat == Int \X Int
R(n) == <<n, 1>>
Zero == <<0, 1>>
Half == <<1, 2>>
\* a + b over the least common denominator; g is gcd of the denominators
radd_g[a \in Rat, b \in Rat, g \in Int] ==
    norm[a[1] * (b[2] \div g) + b[1] * (a[2] \div g), a[2] * (b[2] \div g)]
radd[a \in Rat, b \in Rat] == radd_g[a, b, gcd[a[2], b[2]]]
\* a * b, cancelling across before multiplying
rmul_g[a \in Rat, b \in Rat, g1 \in Int, g2 \in Int] ==
    IF a[1] = 0 \/ b[1] = 0 THEN <<0, 1>>
    ELSE <<(a[1] \div g1) * (b[1] \div g2), (a[2] \div g2) * (b[2] \div g1)>>
rmul[a \in Rat, b \in Rat] == rmul_g[a, b, gcd[Abs(a[1]), b[2]], gcd[Abs(b[1]), a[2]]]
rdiv[a \in Rat, b \in Rat] ==
    IF b[1] < 0 THEN rmul[a, <<0 - b[2], 0 - b[1]>>] ELSE rmul[a, <<b[2], b[1]>>]
rneg[a \in Rat] == <<0 - a[1], a[2]>>
RAdd(a, b) == radd[a, b]
RNeg(a) == rneg[a]
RSub(a, b) == radd[a, rneg[b]]
RMul(a, b) == rmul[a, b]
RDiv(a, b) == rdiv[a, b]
RSq(a) == rmul[a, a]

RECURSIVE RSum(_, _)
\* f[1] + ... + f[n]
RSum(f, n) == IF n = 0 THEN Zero ELSE RAdd(f[n], RSum(f, n - 1))

RECURSIVE Prod(_, _)
\* product of the first k entries of an integer sequence
Prod(s, k) == IF k = 0 THEN 1 ELSE s[k] * Prod(s, k - 1)

RECURSIVE Rep(_, _)
Rep(n, s) == IF n <= 0 THEN <<>> ELSE s \o Rep(n - 1, s)

Reverse(s) == [i \in 1..Len(s) |-> s[Len(s) + 1 - i]]

(***************************************************************************)
(* The system: atoms 0..NAtoms-1, three Cartesian components each, beads   *)
(* 1..nbeads.  Component index 3a+d+1 holds direction d of atom a.         *)
(***************************************************************************)
Atoms == 0..(NAtoms - 1)
Dirs == 0..2
NA3 == 3 * NAtoms
Comp(a, d) == 3 * a + d + 1
AtomOf(i) == (i - 1) \div 3
Beads == 1..cfg.nbeads

\* integer patterns used for initial momenta and for the collaborators' forces
Pat(k) == [i \in 1..NA3 |-> ((i * k + k) % 3) - 1 + (IF i = 1 THEN k ELSE 0)]

Modes == {"nve", "nvt", "nvt-cc", "npt", "nst", "sc", "scnpt", "eda-nve", "dummy"}
Splittings == {"obabo", "baoab", "aboba"}
ValidSplittings == {"obabo", "baoab"}
EDA_integrators == {"eda-nve"}

RECURSIVE SeqsUpTo(_, _)
\* all sequences over S of length 1..n
SeqsUpTo(S, n) ==
    IF n = 0 THEN {}
    ELSE LET shorter == SeqsUpTo(S, n - 1)
         IN {<<x>> : x \in S} \cup shorter \cup
            {Append(s, x) : s \in {t \in shorter : Len(t) = n - 1}, x \in S}

\* the nmts vectors: entries 1..MaxNmts, at most MaxLevels levels, and at most
\* MaxInner iterations of the innermost loop
NmtsSet == {n \in SeqsUpTo(1..MaxNmts, MaxLevels) : Prod(n, Len(n)) <= MaxInner}

\* the nmts vectors with entries up to 2
NmtsSmall == {n \in NmtsSet : \A k \in 1..Len(n) : n[k] <= 2}

\* a configuration every check of bind accepts; the Inits vary parts of it
BaseCfg ==
    [enstype |-> "nve", splitting |-> "obabo", nmts |-> <<1>>, flevels |-> 1,
     dt |-> 1, nbeads |-> 1, m |-> [a \in Atoms |-> 1],
     fixcom |-> FALSE, fixatoms |-> {}, has_bias |-> FALSE,
     thermostat |-> "ThermoLangevin", barostat |-> "BaroBZP",
     temp |-> 1, pext_set |-> TRUE, stress_set |-> TRUE,
     verbosity_medium |-> FALSE,
     p0 |-> 1, fpat |-> 1, fixatoms_none |-> FALSE]

\* Dynamics.__init__: the no-op defaults when no collaborator is configured
eda_on == cfg.enstype \in EDA_integrators

\* the thermostat classes a configuration may name; "Thermostat" is the no-op
\* default __init__ installs when no thermostat is given
ThermostatClasses ==
    {"Thermostat", "ThermoLangevin", "ThermoPILE_L", "ThermoPILE_G", "ThermoNMGLEG"}

\* Python's a or b on strings: a unless it is empty
PyOr(a, b) == IF a # "" THEN a ELSE b

\* lines 76-86: the thermostat check of __init__ ("" when it passes).  The
\* class name is compared with the value of ("ThermoPILE_G" or "ThermoNMGLEG ");
\* len(fixatoms) is evaluated only when the name matches, and fails on None.
Dynamics_init_check ==
    IF cfg.thermostat = "Thermostat" THEN ""
    ELSE IF cfg.thermostat = PyOr("ThermoPILE_G", "ThermoNMGLEG ")
    THEN IF cfg.fixatoms_none THEN "type_error"
         ELSE IF Cardinality(cfg.fixatoms) > 0 THEN "incompatible_thermostat"
         ELSE ""
    ELSE ""

(***************************************************************************)
(* Derived time steps.                                                     *)
(***************************************************************************)
nmtslevels == Len(cfg.nmts)
inmts == Prod(cfg.nmts, Len(cfg.nmts))

\* get_qdt reads self.inmts, a derived quantity itself: inm is the value read
get_qdt(inm) == RDiv(RMul(R(cfg.dt), Half), R(inm))

RECURSIVE dtl(_)
dtl(i) == IF i = 0 THEN RDiv(R(1), R(cfg.nmts[1]))
          ELSE RMul(RDiv(R(1), R(cfg.nmts[i + 1])), dtl(i - 1))

\* Faulty variant: the level fractions are not accumulated over the levels
get_pdt_flat ==
    [i \in 0..(nmtslevels - 1) |-> RMul(RDiv(R(1), R(cfg.nmts[i + 1])), RMul(R(cfg.dt), Half))]

get_pdt == [i \in 0..(nmtslevels - 1) |-> RMul(dtl(i), RMul(R(cfg.dt), Half))]

\* get_tdt raises ValueError for an unknown splitting: raised is TRUE then
get_tdt ==
    IF cfg.splitting = "obabo" THEN [raised |-> FALSE, value |-> RMul(R(cfg.dt), Half)]
    ELSE IF cfg.splitting = "baoab" THEN [raised |-> FALSE, value |-> R(cfg.dt)]
    ELSE [raised |-> TRUE, value |-> Zero]

\* Faulty variant: the beads are not counted
get_fixdof_onebead == Cardinality(cfg.fixatoms) * 3 + (IF cfg.fixcom THEN 3 ELSE 0)

get_fixdof == Cardinality(cfg.fixatoms) * 3 * cfg.nbeads + (IF cfg.fixcom THEN 3 ELSE 0)

(***************************************************************************)
(* What the collaborators supply.  The force field returns a force per MTS *)
(* level, the Suzuki-Chin terms and the virial; the thermostat changes the *)
(* momenta by an amount proportional to its piped step; the EDA extension  *)
(* returns the driving force.  Positions are not tracked, so each is a     *)
(* fixed array chosen by the configuration.                                *)
(***************************************************************************)
forces_mts(level) == [b \in Beads |-> [i \in 1..NA3 |-> R((level + 1) * Pat(cfg.fpat)[i] + (b - 1))]]
bias_f == [b \in Beads |-> [i \in 1..NA3 |-> R(1)]]
fsc_part_2 == [b \in Beads |-> [i \in 1..NA3 |-> R(Pat(cfg.fpat)[i] + b)]]
\* the Suzuki-Chin coefficients: -1/3 on beads 0, 2, ... and +1/3 on beads 1, 3, ...
coeffsc_part_1 == [b \in Beads |-> IF (b - 1) % 2 = 0 THEN <<-1, 3>> ELSE <<1, 3>>]
EDAforces == [b \in Beads |-> [i \in 1..NA3 |-> R(Pat(cfg.fpat)[i])]]
thermostat_kick == [b \in Beads |-> [i \in 1..NA3 |-> R(Pat(cfg.fpat)[i] - b)]]
\* the full force forces.f, the sum over the levels
RECURSIVE forces_f_upto(_, _, _)
forces_f_upto(n, b, i) == IF n = 0 THEN Zero ELSE RAdd(forces_mts(n - 1)[b][i], forces_f_upto(n - 1, b, i))
forces_f == [b \in Beads |-> [i \in 1..NA3 |-> forces_f_upto(cfg.flevels, b, i)]]

\* q += f * c, componentwise on every bead
AddScaled(q, f, c) == [b \in Beads |-> [i \in 1..NA3 |-> RAdd(q[b][i], RMul(f[b][i], c))]]

MassOf(i) == cfg.m[AtomOf(i)]
\* beads[0].M, the mass of one replica
TotalMass == RSum([k \in 1..NAtoms |-> R(cfg.m[k - 1])], NAtoms)

\* kinetic energy of the bead momenta q
BeadKinetic(q, b) == RSum([i \in 1..NA3 |-> RDiv(RSq(q[b][i]), R(2 * MassOf(i)))], NA3)
Kinetic(q) == RSum([b \in Beads |-> BeadKinetic(q, b)], cfg.nbeads)
\* momentum summed over all atoms and beads in direction d
BeadMomentum(q, b, d) == RSum([k \in 1..NAtoms |-> q[b][Comp(k - 1, d)]], NAtoms)
TotalMomentum(q, d) == RSum([b \in Beads |-> BeadMomentum(q, b, d)], cfg.nbeads)

(***************************************************************************)
(* The derived quantities of the integrator.  DummyIntegrator.bind and     *)
(* EDAIntegrator.bind create each as a node with a rule and a list of      *)
(* dependencies.  A node holds [tainted, value]: a read of a tainted node  *)
(* applies the rule and stores the result; a write to a stored quantity    *)
(* taints every node that depends on it, directly or through other nodes.  *)
(* The length of nmts is fixed by the force field, so nmtslevels is not a  *)
(* node here.                                                              *)
(***************************************************************************)
Nodes == {"inmts", "qdt", "qdt_on_m", "pdt", "tdt", "EDAforces"}
Stored == {"dt", "splitting", "nmts", "time", "mts_time", "bec", "Efield"}

\* Faulty variant: pdt does not list nmts
Deps_pdt_without_nmts(n) ==
    CASE n = "inmts" -> {}
      [] n = "qdt" -> {"splitting", "dt", "inmts"}
      [] n = "qdt_on_m" -> {}
      [] n = "pdt" -> {"splitting", "dt"}
      [] n = "tdt" -> {"splitting", "dt", "nmts"}
      [] n = "EDAforces" -> {"time", "mts_time", "bec", "Efield"}

\* the dependencies= argument of each node (none given: the empty set)
Deps(n) ==
    CASE n = "inmts" -> {}
      [] n = "qdt" -> {"splitting", "dt", "inmts"}
      [] n = "qdt_on_m" -> {}
      [] n = "pdt" -> {"splitting", "dt", "nmts"}
      [] n = "tdt" -> {"splitting", "dt", "nmts"}
      [] n = "EDAforces" -> {"time", "mts_time", "bec", "Efield"}

RECURSIVE Downstream(_)
\* S and every node that depends on a member of S
Downstream(S) ==
    IF {n \in Nodes : Deps(n) \cap S # {}} \subseteq S THEN S
    ELSE Downstream(S \cup {n \in Nodes : Deps(n) \cap S # {}})

\* a write to the stored quantity x
Taint(d, x) ==
    [n \in Nodes |-> IF n \in Downstream({x}) THEN [d[n] EXCEPT !.tainted = TRUE] ELSE d[n]]

\* the value= argument of each node at creation
Blank(n) ==
    CASE n = "inmts" -> 0
      [] n = "qdt" -> Zero
      [] n = "qdt_on_m" -> [i \in 1..NA3 |-> Zero]
      [] n = "pdt" -> [i \in 0..(nmtslevels - 1) |-> Zero]
      [] n = "tdt" -> Zero
      [] n = "EDAforces" -> [b \in Beads |-> [i \in 1..NA3 |-> Zero]]

\* the nodes as created: nothing computed yet
Unfilled == [n \in Nodes |-> [tainted |-> TRUE, value |-> Blank(n)]]

Fill(d, n, v) ==
    [dq |-> [d EXCEPT ![n] = [tainted |-> FALSE, value |-> v]], value |-> v, raised |-> FALSE]

\* the rule of node n, its upstream node u already read
Refill(n, u) ==
    CASE n = "inmts" -> Fill(u.dq, n, inmts)
      [] n = "qdt" -> Fill(u.dq, n, get_qdt(u.value))
      [] n = "qdt_on_m" -> Fill(u.dq, n, [i \in 1..NA3 |-> RDiv(u.value, R(MassOf(i)))])
      [] n = "pdt" -> Fill(u.dq, n, get_pdt)
      [] n = "tdt" -> IF get_tdt.raised THEN [dq |-> u.dq, value |-> Zero, raised |-> TRUE]
                      ELSE Fill(u.dq, n, get_tdt.value)
      [] n = "EDAforces" -> Fill(u.dq, n, EDAforces)

\* the node the rule of n reads, if any
Upstream(n) == CASE n = "qdt" -> {"inmts"} [] n = "qdt_on_m" -> {"qdt"} [] OTHER -> {}

RECURSIVE Get(_, _)
\* a read of node n: [dq, value, raised]
Get(d, n) ==
    IF ~d[n].tainted THEN [dq |-> d, value |-> d[n].value, raised |-> FALSE]
    ELSE IF Upstream(n) = {} THEN Refill(n, [dq |-> d, value |-> 0])
    ELSE CHOOSE r \in {Refill(n, u) : u \in {Get(d, m) : m \in Upstream(n)}} : TRUE

(***************************************************************************)
(* DummyIntegrator.pconstraints on a record [p, eens].                     *)
(***************************************************************************)
\* Faulty variant: the drift is divided by the mass of one replica, not of all beads
ComPart_onebead(s) ==
    IF ~cfg.fixcom THEN s
    ELSE [p |-> [b \in Beads |-> [i \in 1..NA3 |->
                   RSub(s.p[b][i],
                        RMul(R(MassOf(i)), RDiv(TotalMomentum(s.p, (i - 1) % 3), TotalMass)))]],
          eens |-> RAdd(s.eens,
                        RDiv(RMul(RSum([k \in 1..3 |-> RSq(TotalMomentum(s.p, k - 1))], 3), Half),
                             RMul(TotalMass, R(cfg.nbeads))))]

\* lines 389-404: remove the centre-of-mass momentum, credit the ledger
ComPart(s) ==
    IF ~cfg.fixcom THEN s
    ELSE [p |-> [b \in Beads |-> [i \in 1..NA3 |->
                   RSub(s.p[b][i],
                        RMul(R(MassOf(i)),
                             RDiv(TotalMomentum(s.p, (i - 1) % 3),
                                  RMul(TotalMass, R(cfg.nbeads)))))]],
          eens |-> RAdd(s.eens,
                        RDiv(RMul(RSum([k \in 1..3 |-> RSq(TotalMomentum(s.p, k - 1))], 3), Half),
                             RMul(TotalMass, R(cfg.nbeads))))]

\* kinetic energy held by the frozen atoms' components of bead b
FixedKinetic(q, b) ==
    RSum([i \in 1..NA3 |->
            IF AtomOf(i) \in cfg.fixatoms
            THEN RMul(Half, RDiv(RSq(q[b][i]), R(MassOf(i))))
            ELSE Zero], NA3)

\* Faulty variant: the z components are zeroed without being credited to the ledger
FixPart_noz(s) ==
    IF Cardinality(cfg.fixatoms) = 0 THEN s
    ELSE [p |-> [b \in Beads |-> [i \in 1..NA3 |->
                   IF AtomOf(i) \in cfg.fixatoms THEN Zero ELSE s.p[b][i]]],
          eens |-> RAdd(s.eens,
                        RSum([b \in Beads |->
                                RSum([i \in 1..NA3 |->
                                        IF AtomOf(i) \in cfg.fixatoms /\ (i - 1) % 3 # 2
                                        THEN RMul(Half, RDiv(RSq(s.p[b][i]), R(MassOf(i))))
                                        ELSE Zero], NA3)], cfg.nbeads))]

\* lines 406-422: credit the ledger with the frozen atoms' kinetic energy, zero them
FixPart(s) ==
    IF Cardinality(cfg.fixatoms) = 0 THEN s
    ELSE [p |-> [b \in Beads |-> [i \in 1..NA3 |->
                   IF AtomOf(i) \in cfg.fixatoms THEN Zero ELSE s.p[b][i]]],
          eens |-> RAdd(s.eens, RSum([b \in Beads |-> FixedKinetic(s.p, b)], cfg.nbeads))]

\* the argument of FixPart is bound to the value ComPart returns
pconstraints(s) == CHOOSE r \in {FixPart(c) : c \in {ComPart(s)}} : TRUE

(***************************************************************************)
(* Sub-steps.  An integrator step is a fixed sequence of sub-steps (the    *)
(* control flow reads only the configuration); each sub-step is an event   *)
(* [op, level], executed by Exec below.                                    *)
(***************************************************************************)
NoLevel == 0 - 1
Ev(op, level) == [op |-> op, level |-> level]
E(op) == <<Ev(op, NoLevel)>>

BaroModes == {"npt", "nst", "scnpt"}
SCModes == {"sc", "scnpt"}
MTSModes == {"nve", "nvt", "npt", "nst", "sc", "scnpt", "eda-nve"}

\* Faulty variant: the barostat's kick follows the particle kick
pstep_barolast(level) ==
    CASE cfg.enstype \in {"nve", "nvt"} -> <<Ev("kick", level)>>
      [] cfg.enstype \in {"npt", "nst"} ->
            <<Ev("stresscheck", level), Ev("kick", level), Ev("barostat.pstep", level)>>
      [] cfg.enstype = "sc" -> <<Ev("sc_kick", level)>>
      [] cfg.enstype = "scnpt" ->
            <<Ev("stresscheck", level), Ev("barostat.pstep", level), Ev("sc_kick", level)>>
      [] cfg.enstype = "eda-nve" -> <<Ev("kick", level), Ev("eda_kick", level)>>
      [] OTHER -> <<>>

\* the pstep of the bound integrator class
pstep(level) ==
    CASE cfg.enstype \in {"nve", "nvt"} -> <<Ev("kick", level)>>
      [] cfg.enstype \in {"npt", "nst"} ->
            <<Ev("stresscheck", level), Ev("barostat.pstep", level), Ev("kick", level)>>
      [] cfg.enstype = "sc" -> <<Ev("sc_kick", level)>>
      [] cfg.enstype = "scnpt" ->
            <<Ev("stresscheck", level), Ev("barostat.pstep", level), Ev("sc_kick", level)>>
      [] cfg.enstype = "eda-nve" -> <<Ev("kick", level), Ev("eda_kick", level)>>
      [] OTHER -> <<>>

qcstep ==
    IF cfg.enstype \in BaroModes THEN E("barostat.qcstep")
    ELSE IF cfg.enstype = "dummy" THEN <<>>
    ELSE E("qcstep")

tstep ==
    IF cfg.enstype \in BaroModes THEN E("thermostat.step") \o E("barostat.thermostat.step")
    ELSE E("thermostat.step")

pcons == E("pconstraints")
free_qstep == E("nm.free_qstep")

RECURSIVE mtsprop_ba(_), mtsprop_ab(_), mtsprop(_)

\* Faulty variant: the odd leftover drifts without constraining its kick
mtsprop_ba_nocons(index) ==
    LET mk == cfg.nmts[index + 1] \div 2
        innermost == (index = nmtslevels - 1)
        full == pstep(index) \o pcons
                \o (IF innermost THEN qcstep \o free_qstep \o qcstep \o free_qstep
                    ELSE mtsprop(index + 1))
                \o pstep(index) \o pcons
        odd == pstep(index)
               \o (IF innermost THEN qcstep \o free_qstep ELSE mtsprop_ba(index + 1))
    IN Rep(mk, full) \o (IF cfg.nmts[index + 1] % 2 = 1 THEN odd ELSE <<>>)

mtsprop_ba(index) ==
    LET mk == cfg.nmts[index + 1] \div 2
        innermost == (index = nmtslevels - 1)
        full == pstep(index) \o pcons
                \o (IF innermost THEN qcstep \o free_qstep \o qcstep \o free_qstep
                    ELSE mtsprop(index + 1))
                \o pstep(index) \o pcons
        odd == pstep(index) \o pcons
               \o (IF innermost THEN qcstep \o free_qstep ELSE mtsprop_ba(index + 1))
    IN Rep(mk, full) \o (IF cfg.nmts[index + 1] % 2 = 1 THEN odd ELSE <<>>)

\* Faulty variant: the odd leftover kicks before it drifts, as mtsprop_ba does
mtsprop_ab_kickfirst(index) ==
    LET mk == cfg.nmts[index + 1] \div 2
        innermost == (index = nmtslevels - 1)
        odd == pstep(index) \o pcons
               \o (IF innermost THEN qcstep \o free_qstep ELSE mtsprop_ab(index + 1))
        full == pstep(index) \o pcons
                \o (IF innermost THEN qcstep \o free_qstep \o qcstep \o free_qstep
                    ELSE mtsprop(index + 1))
                \o pstep(index) \o pcons
    IN (IF cfg.nmts[index + 1] % 2 = 1 THEN odd ELSE <<>>) \o Rep(mk, full)

mtsprop_ab(index) ==
    LET mk == cfg.nmts[index + 1] \div 2
        innermost == (index = nmtslevels - 1)
        odd == (IF innermost THEN qcstep \o free_qstep ELSE mtsprop_ab(index + 1))
               \o pstep(index) \o pcons
        full == pstep(index) \o pcons
                \o (IF innermost THEN qcstep \o free_qstep \o qcstep \o free_qstep
                    ELSE mtsprop(index + 1))
                \o pstep(index) \o pcons
    IN (IF cfg.nmts[index + 1] % 2 = 1 THEN odd ELSE <<>>) \o Rep(mk, full)

\* Faulty variant: only the first half of the outer step
mtsprop_ba_only(index) == mtsprop_ba(index)

mtsprop(index) == mtsprop_ba(index) \o mtsprop_ab(index)

NVEIntegrator_step == mtsprop(0)

\* Faulty variant: the OBABO composition whatever the splitting
NVTIntegrator_step_nosplit == tstep \o pcons \o mtsprop(0) \o tstep \o pcons

NVTIntegrator_step ==
    IF cfg.splitting = "obabo" THEN tstep \o pcons \o mtsprop(0) \o tstep \o pcons
    ELSE IF cfg.splitting = "baoab" THEN mtsprop_ba(0) \o tstep \o pcons \o mtsprop_ab(0)
    ELSE <<>>

\* Faulty variant: the centroid is not zeroed after the first kick
NVTCCIntegrator_step_nozero ==
    E("thermostat.step") \o pcons \o E("credit_centroid") \o E("zero_centroid")
    \o E("nm_kick") \o pcons
    \o free_qstep
    \o E("nm_kick") \o E("zero_centroid") \o pcons
    \o E("thermostat.step") \o E("credit_centroid") \o E("zero_centroid") \o pcons

NVTCCIntegrator_step ==
    E("thermostat.step") \o pcons \o E("credit_centroid") \o E("zero_centroid")
    \o E("nm_kick") \o E("zero_centroid") \o pcons
    \o free_qstep
    \o E("nm_kick") \o E("zero_centroid") \o pcons
    \o E("thermostat.step") \o E("credit_centroid") \o E("zero_centroid") \o pcons

SCIntegrator_step ==
    IF cfg.splitting = "obabo"
    THEN tstep \o pcons \o E("sc_half") \o mtsprop(0) \o E("sc_half") \o tstep \o pcons
    ELSE IF cfg.splitting = "baoab"
    THEN E("sc_half") \o mtsprop_ba(0) \o tstep \o pcons \o mtsprop_ab(0) \o E("sc_half")
    ELSE <<>>

SCNPTIntegrator_step ==
    IF cfg.splitting = "obabo"
    THEN tstep \o pcons \o E("barostat.pscstep") \o E("sc_half") \o mtsprop(0)
         \o E("barostat.pscstep") \o E("sc_half") \o tstep \o pcons
    ELSE IF cfg.splitting = "baoab"
    THEN E("barostat.pscstep") \o E("sc_half") \o mtsprop_ba(0) \o tstep \o pcons
         \o mtsprop_ab(0) \o E("barostat.pscstep") \o E("sc_half")
    ELSE <<>>

\* Faulty variant: the number of levels is not checked
EDAIntegrator_step_nocheck == NVEIntegrator_step

EDAIntegrator_step ==
    IF Len(cfg.nmts) > 1 THEN E("raise:eda_mts") ELSE NVEIntegrator_step

\* self.integrator.step of the class Dynamics.__init__ selected
integrator_step ==
    CASE cfg.enstype = "nve" -> NVEIntegrator_step
      [] cfg.enstype \in {"nvt", "npt", "nst"} -> NVTIntegrator_step
      [] cfg.enstype = "nvt-cc" -> NVTCCIntegrator_step
      [] cfg.enstype = "sc" -> SCIntegrator_step
      [] cfg.enstype = "scnpt" -> SCNPTIntegrator_step
      [] cfg.enstype = "eda-nve" -> EDAIntegrator_step
      [] OTHER -> <<>>

(***************************************************************************)
(* Dynamics.bind as a sequence of events; a "raise:" event is the          *)
(* ValueError of that check and ends the handler.                          *)
(***************************************************************************)
\* DummyIntegrator.bind, extended by SCIntegrator.bind and EDAIntegrator.bind
integrator_bind ==
    E("integrator.bind")
    \o (IF cfg.enstype \in SCModes THEN E("add_econs:potsc") \o E("add_xlpot:potsc") ELSE <<>>)
    \o (IF cfg.enstype \in EDA_integrators THEN E("EDAIntegrator.bind") ELSE <<>>)

\* Faulty variant: a temperature of zero is rejected too
bind_validation_tempzero ==
    IF cfg.enstype \in {"nvt", "nvt-cc", "npt", "nst"}
    THEN IF cfg.temp <= 0 THEN E("raise:temperature")
         ELSE IF cfg.enstype = "npt"
              THEN IF cfg.barostat = "Barostat" THEN E("raise:barostat")
                   ELSE IF ~cfg.pext_set THEN E("raise:pressure") ELSE <<>>
              ELSE IF cfg.enstype = "nst"
                   THEN IF ~cfg.stress_set THEN E("raise:stress") ELSE <<>>
                   ELSE <<>>
    ELSE <<>>

\* Faulty variant: the type of the barostat is not checked
bind_validation_nobaro ==
    IF cfg.enstype \in {"nvt", "nvt-cc", "npt", "nst"}
    THEN IF cfg.temp < 0 THEN E("raise:temperature")
         ELSE IF cfg.enstype = "npt"
              THEN IF ~cfg.pext_set THEN E("raise:pressure") ELSE <<>>
              ELSE IF cfg.enstype = "nst"
                   THEN IF ~cfg.stress_set THEN E("raise:stress") ELSE <<>>
                   ELSE <<>>
    ELSE <<>>

\* lines 229-248: the checks at the end of bind
bind_validation ==
    IF cfg.enstype \in {"nvt", "nvt-cc", "npt", "nst"}
    THEN IF cfg.temp < 0 THEN E("raise:temperature")
         ELSE IF cfg.enstype = "npt"
              THEN IF cfg.barostat = "Barostat" THEN E("raise:barostat")
                   ELSE IF ~cfg.pext_set THEN E("raise:pressure") ELSE <<>>
              ELSE IF cfg.enstype = "nst"
                   THEN IF ~cfg.stress_set THEN E("raise:stress") ELSE <<>>
                   ELSE <<>>
    ELSE <<>>

\* Faulty variant: the level counts are compared with the other checks, at the end
Dynamics_bind_latecheck ==
    E("Motion.bind")
    \o E("thermostat.bind")
    \o E("barostat.bind")
    \o integrator_bind
    \o E("add_econs:ethermo") \o E("add_econs:ebaro")
    \o E("add_xlpot:pot") \o E("add_xlpot:cell_jacobian") \o E("add_xlkin:kin")
    \o (IF eda_on THEN E("eda.bind") ELSE <<>>)
    \o integrator_bind
    \o pcons
    \o (IF Len(cfg.nmts) # cfg.flevels THEN E("raise:nmts_levels") ELSE <<>>)
    \o bind_validation

Dynamics_bind ==
    E("Motion.bind")
    \o (IF Len(cfg.nmts) # cfg.flevels THEN E("raise:nmts_levels") ELSE <<>>)
    \o E("thermostat.bind")
    \o E("barostat.bind")
    \o integrator_bind
    \o E("add_econs:ethermo") \o E("add_econs:ebaro")
    \o E("add_xlpot:pot") \o E("add_xlpot:cell_jacobian") \o E("add_xlkin:kin")
    \o (IF eda_on THEN E("eda.bind") ELSE <<>>)
    \o integrator_bind
    \o pcons
    \o bind_validation

(***************************************************************************)
(* Execution of one event on the machine state                             *)
(* [p, eens, stresscheck, mts_time, err, hist].                            *)
(***************************************************************************)
IsRaise(op) == Len(op) > 6 /\ SubSeq(op, 1, 6) = "raise:"

bias_now == IF cfg.has_bias THEN bias_f ELSE [b \in Beads |-> [i \in 1..NA3 |-> Zero]]

\* NVEIntegrator.pstep, pdt the value of self.pdt[level]
NVE_pstep(q, level, pdt) ==
    LET q1 == AddScaled(q, forces_mts(level), pdt)
    IN IF level = 0 /\ cfg.has_bias THEN AddScaled(q1, bias_f, pdt) ELSE q1

\* SCIntegrator.pstep, pdt the value of self.pdt[level]
SC_pstep(q, level, pdt) ==
    LET q1 == IF level = 0 THEN AddScaled(q, bias_now, pdt) ELSE q
    IN [b \in Beads |-> [i \in 1..NA3 |->
          RAdd(q1[b][i], RMul(RMul(forces_mts(level)[b][i], RAdd(R(1), coeffsc_part_1[b])),
                              pdt))]]

\* the bead-summed momentum of component i: sqrt(nbeads) times pnm[0][i]
CentroidSum(q, i) == RSum([b \in Beads |-> q[b][i]], cfg.nbeads)

\* 0.5 * dot(pnm[0], pnm[0] / dynm3[0])
CentroidKinetic(q) ==
    RSum([i \in 1..NA3 |-> RDiv(RSq(CentroidSum(q, i)), R(2 * cfg.nbeads * MassOf(i)))], NA3)

\* nm.pnm[0, :] = 0.0 in bead coordinates
ZeroCentroid(q) ==
    [b \in Beads |-> [i \in 1..NA3 |-> RSub(q[b][i], RDiv(CentroidSum(q, i), R(cfg.nbeads)))]]

\* What an event leaves for the record: the step size it consumed, whether it
\* issued the zero-stress warning, whether it computed EDAforces.
NoNote == [used |-> Zero, warn |-> FALSE, computed |-> FALSE]

\* the kicks, g the read of pdt
Kick(st, l, g) ==
    [st EXCEPT !.p = NVE_pstep(st.p, l, g.value[l]), !.dq = g.dq, !.note.used = g.value[l]]
SCKick(st, l, g) ==
    [st EXCEPT !.p = SC_pstep(st.p, l, g.value[l]), !.dq = g.dq, !.note.used = g.value[l]]

\* Faulty variant: the clock is advanced by every kick
eda_clock_everykick(mt) == mt + cfg.dt

\* EDAIntegrator.pstep, lines 877-881: mts_time after a kick that found it at mt
eda_clock(mt) == IF mt = time THEN mt + cfg.dt ELSE mt

\* EDAIntegrator.pstep: f the read of EDAforces, g the read of pdt after it;
\* the write to mts_time taints what depends on it
EdaKick(st, l, f, g) ==
    [st EXCEPT !.p = AddScaled(st.p, f.value, g.value[l]),
               !.mts_time = eda_clock(st.mts_time),
               !.dq = IF eda_clock(st.mts_time) # st.mts_time THEN Taint(g.dq, "mts_time")
                      ELSE g.dq,
               !.note = [used |-> g.value[l], warn |-> FALSE,
                         computed |-> st.dq["EDAforces"].tainted]]
EdaKickWith(st, l, f) ==
    CHOOSE r \in {EdaKick(st, l, f, g) : g \in {Get(f.dq, "pdt")}} : TRUE

\* Faulty variant: the flag is left as it is
NPT_stresscheck_keepflag(st) ==
    IF st.stresscheck /\ st.vz
    THEN IF cfg.verbosity_medium THEN [st EXCEPT !.err = "zero_stress"]
         ELSE [st EXCEPT !.note.warn = TRUE]
    ELSE st

\* NPTIntegrator.pstep and SCNPTIntegrator.pstep, up to self._stresscheck = False;
\* st.vz: the force field's virial is all zero
NPT_stresscheck(st) ==
    IF st.stresscheck /\ st.vz
    THEN IF cfg.verbosity_medium THEN [st EXCEPT !.err = "zero_stress"]
         ELSE [st EXCEPT !.stresscheck = FALSE, !.note.warn = TRUE]
    ELSE [st EXCEPT !.stresscheck = FALSE]

\* thermostat.step of a configured thermostat, g the read of its piped step tdt
ThermoStep(st, g) ==
    IF g.raised THEN [st EXCEPT !.err = "invalid_splitting"]
    ELSE [st EXCEPT !.p = AddScaled(st.p, thermostat_kick, g.value), !.dq = g.dq,
                    !.note.used = g.value]

\* nm.free_qstep, g the read of its piped step qdt
FreeQ(st, g) == [st EXCEPT !.dq = g.dq, !.note.used = g.value]

\* NVEIntegrator.qcstep, g the read of self.qdt_on_m (positions are not tracked)
QcStep(st, g) == [st EXCEPT !.dq = g.dq]

Effect(st, ev) ==
    LET op == ev.op
        l == ev.level
    IN CASE op = "kick" -> CHOOSE r \in {Kick(st, l, g) : g \in {Get(st.dq, "pdt")}} : TRUE
         [] op = "sc_kick" -> CHOOSE r \in {SCKick(st, l, g) : g \in {Get(st.dq, "pdt")}} : TRUE
         [] op = "sc_half" ->
              [st EXCEPT !.p = AddScaled(st.p, fsc_part_2, RMul(R(cfg.dt), Half)),
                         !.note.used = RMul(R(cfg.dt), Half)]
         [] op = "eda_kick" ->
              CHOOSE r \in {EdaKickWith(st, l, f) : f \in {Get(st.dq, "EDAforces")}} : TRUE
         [] op = "nm_kick" ->
              [st EXCEPT !.p = AddScaled(st.p, forces_f, RMul(R(cfg.dt), Half)),
                         !.note.used = RMul(R(cfg.dt), Half)]
         [] op = "stresscheck" -> NPT_stresscheck(st)
         [] op = "thermostat.step" ->
              IF cfg.thermostat = "Thermostat" THEN st
              ELSE CHOOSE r \in {ThermoStep(st, g) : g \in {Get(st.dq, "tdt")}} : TRUE
         [] op = "qcstep" ->
              CHOOSE r \in {QcStep(st, g) : g \in {Get(st.dq, "qdt_on_m")}} : TRUE
         [] op = "nm.free_qstep" ->
              CHOOSE r \in {FreeQ(st, g) : g \in {Get(st.dq, "qdt")}} : TRUE
         [] op = "pconstraints" ->
              CHOOSE n \in {[st EXCEPT !.p = r.p, !.eens = r.eens] :
                              r \in {pconstraints([p |-> st.p, eens |-> st.eens])}} : TRUE
         [] op = "credit_centroid" ->
              [st EXCEPT !.eens = RAdd(st.eens, CentroidKinetic(st.p))]
         [] op = "zero_centroid" -> [st EXCEPT !.p = ZeroCentroid(st.p)]
         [] op = "integrator.bind" ->
              [st EXCEPT !.stresscheck = TRUE,
                         !.dq = [n \in Nodes |-> IF n = "EDAforces" THEN st.dq[n]
                                                 ELSE Unfilled[n]]]
         [] op = "EDAIntegrator.bind" ->
              [st EXCEPT !.dq = [st.dq EXCEPT !["EDAforces"] = Unfilled["EDAforces"]]]
         [] op = "eda.bind" -> [st EXCEPT !.mts_time = time]
         [] IsRaise(op) -> [st EXCEPT !.err = SubSeq(op, 7, Len(op))]
         [] OTHER -> st

\* An event that raised is not recorded: hist holds the completed sub-steps,
\* each with the state it left.  (n is bound to the value of Effect;
\* comparing n.p evaluates the momenta once and for all.)
Exec(st, ev) ==
    IF st.err # "" THEN st
    ELSE CHOOSE r \in {(IF n.err # "" \/ n.p # n.p THEN n
                        ELSE [n EXCEPT !.hist = Append(st.hist,
                                 [op |-> ev.op, level |-> ev.level, p |-> n.p, eens |-> n.eens,
                                  mts_time |-> n.mts_time, stresscheck |-> n.stresscheck,
                                  used |-> n.note.used, warn |-> n.note.warn,
                                  computed |-> n.note.computed])]) :
                       n \in {Effect([st EXCEPT !.note = NoNote], ev)}} : TRUE

RECURSIVE RunRange(_, _, _, _)
\* the events prog[lo..hi] in order, from machine state st; a raise ends the
\* handler: the events after it are not executed
RunRange(st, prog, lo, hi) ==
    IF lo > hi THEN st
    ELSE IF lo = hi THEN Exec(st, prog[lo])
    ELSE CHOOSE r \in {RunRange(n, prog, ((lo + hi) \div 2) + 1, hi) :
                       n \in {RunRange(st, prog, lo, (lo + hi) \div 2)}} : TRUE

\* the handler's calls from the current state; vz: the virial is all zero
Run(prog, vz) ==
    RunRange([p |-> p, eens |-> eens, stresscheck |-> stresscheck, mts_time |-> mts_time,
              err |-> "", hist |-> <<>>, dq |-> dq, vz |-> vz, note |-> NoNote],
             prog, 1, Len(prog))

(***************************************************************************)
(* The handlers.                                                           *)
(***************************************************************************)
\* Dynamics.__init__ on the configured arguments: it ends in the fatal exit of
\* the thermostat check, in the TypeError of len(None), or with the object built
Construct ==
    /\ phase = "new"
    /\ err' = Dynamics_init_check
    /\ phase' = IF Dynamics_init_check = "" THEN "constructed" ELSE "failed"
    /\ last' = "init"
    /\ UNCHANGED <<cfg, p, eens, time, mts_time, stresscheck, nsteps, hist, dq, vir_zero,
                   out, nsets>>

Bind ==
    /\ phase = "constructed"
    /\ \E prog \in {Dynamics_bind} : \E r \in {Run(prog, FALSE)} :
          /\ p' = r.p
          /\ eens' = r.eens
          /\ stresscheck' = r.stresscheck
          /\ mts_time' = r.mts_time
          /\ err' = r.err
          /\ hist' = r.hist
          /\ dq' = r.dq
          /\ phase' = IF r.err = "" THEN "bound" ELSE "failed"
    /\ last' = "bind"
    /\ UNCHANGED <<cfg, time, nsteps, vir_zero, out, nsets>>

\* lines 261-268: the clock check of a field-driven ensemble, on the advanced time t
eda_check(t, mt) == IF eda_on /\ Abs(t - mt) > 0 THEN "eda_clock" ELSE ""

\* Faulty variant: the clock is advanced whatever the integrator did
time_after_always(e) == time + cfg.dt

\* lines 258-259: ensemble.time once integrator.step has returned (e = "") or raised
time_after(e) == IF e # "" THEN time ELSE time + cfg.dt

\* the virial the force field holds during a step; only NPTIntegrator.pstep
\* and SCNPTIntegrator.pstep look at it
VirInputs == IF cfg.enstype \in BaroModes THEN BOOLEAN ELSE {FALSE}

\* Dynamics.step: the integrator's step, then the clock, then the EDA check
Step ==
    /\ phase = "bound"
    /\ nsteps < MaxSteps
    /\ \E vz \in VirInputs : \E prog \in {integrator_step} : \E r \in {Run(prog, vz)} :
          /\ p' = r.p
          /\ eens' = r.eens
          /\ stresscheck' = r.stresscheck
          /\ mts_time' = r.mts_time
          /\ hist' = r.hist
          /\ vir_zero' = vz
          /\ time' = time_after(r.err)
          /\ IF r.err # ""
             THEN dq' = r.dq /\ err' = r.err /\ phase' = "failed"
             ELSE /\ dq' = Taint(r.dq, "time")
                  /\ err' = eda_check(time + cfg.dt, r.mts_time)
                  /\ phase' = IF eda_check(time + cfg.dt, r.mts_time) = "" THEN "bound" ELSE "failed"
    /\ nsteps' = nsteps + 1
    /\ last' = "step"
    /\ UNCHANGED <<cfg, out, nsets>>

\* A write to dt, splitting or nmts of a bound dynamics (the nodes exist from
\* bind on; nmts keeps its length, the number of levels of the force field).
SetDt ==
    /\ phase = "bound"
    /\ nsets < MaxSets
    /\ \E d \in 1..MaxDt :
          /\ cfg' = [cfg EXCEPT !.dt = d]
          /\ dq' = Taint(dq, "dt")
    /\ nsets' = nsets + 1
    /\ last' = "set"
    /\ UNCHANGED <<phase, p, eens, time, mts_time, stresscheck, nsteps, err, hist, vir_zero, out>>

SetSplitting ==
    /\ phase = "bound"
    /\ nsets < MaxSets
    /\ \E s \in Splittings :
          /\ cfg' = [cfg EXCEPT !.splitting = s]
          /\ dq' = Taint(dq, "splitting")
    /\ nsets' = nsets + 1
    /\ last' = "set"
    /\ UNCHANGED <<phase, p, eens, time, mts_time, stresscheck, nsteps, err, hist, vir_zero, out>>

SetNmts ==
    /\ phase = "bound"
    /\ nsets < MaxSets
    /\ \E n \in {x \in NmtsSmall : Len(x) = Len(cfg.nmts)} :
          /\ cfg' = [cfg EXCEPT !.nmts = n]
          /\ dq' = Taint(dq, "nmts")
    /\ nsets' = nsets + 1
    /\ last' = "set"
    /\ UNCHANGED <<phase, p, eens, time, mts_time, stresscheck, nsteps, err, hist, vir_zero, out>>

ReadNodes == IF eda_on THEN Nodes ELSE Nodes \ {"EDAforces"}

\* A read of a derived quantity of the bound integrator; out is what the
\* caller gets (raised: the rule raised, nothing was stored).
Read ==
    /\ phase = "bound"
    /\ \E n \in ReadNodes : \E g \in {Get(dq, n)} :
          /\ dq' = g.dq
          /\ out' = [node |-> n, value |-> g.value, raised |-> g.raised]
    /\ last' = "read"
    /\ UNCHANGED <<cfg, phase, p, eens, time, mts_time, stresscheck, nsteps, err, hist,
                   vir_zero, nsets>>

\* Dynamics.get_fixdof, once the beads are bound
GetFixdof ==
    /\ phase # "constructed"
    /\ out' = [node |-> "fixdof", value |-> get_fixdof, raised |-> FALSE]
    /\ last' = "get_fixdof"
    /\ UNCHANGED <<cfg, phase, p, eens, time, mts_time, stresscheck, nsteps, err, hist,
                   dq, vir_zero, nsets>>

\* a run: the configuration is fixed
Next == Bind \/ Step
\* a dynamics whose time step, splitting and nmts are written and whose
\* derived quantities are read between steps
NextDQ == Bind \/ Step \/ SetDt \/ SetSplitting \/ SetNmts \/ Read
NextFix == Bind \/ GetFixdof
\* a run from the constructor's arguments
NextCtor == Construct \/ Bind \/ Step

(***************************************************************************)
(* Initial states: the object Dynamics.__init__ leaves, for a set of       *)
(* configurations.                                                         *)
(***************************************************************************)
InitMomenta(c) == [b \in 1..c.nbeads |-> [i \in 1..NA3 |-> R(Pat(c.p0)[i] + (b - 1) * (i % 2))]]

InitWith(C) ==
    /\ cfg \in C
    /\ phase = "constructed"
    /\ p = InitMomenta(cfg)
    /\ eens = Zero
    /\ time = 0
    /\ mts_time = 0
    /\ stresscheck = FALSE
    /\ nsteps = 0
    /\ last = "init"
    /\ err = ""
    /\ hist = <<>>
    /\ dq = Unfilled
    /\ vir_zero = FALSE
    /\ out = [node |-> "none", value |-> 0, raised |-> FALSE]
    /\ nsets = 0

Masses == {[a \in Atoms |-> 1], [a \in Atoms |-> a + 1]}

\* configurations for the checks of bind and the errors of step
CfgLife ==
    {[BaseCfg EXCEPT !.enstype = e, !.splitting = s, !.nmts = n, !.flevels = f,
                     !.thermostat = th, !.barostat = ba, !.temp = t,
                     !.pext_set = px, !.stress_set = sx] :
        e \in Modes, s \in Splittings, n \in NmtsSmall,
        f \in 1..MaxLevels, th \in {"Thermostat", "ThermoLangevin"},
        ba \in {"Barostat", "BaroBZP"}, t \in {0 - 1, 0, 1}, px \in BOOLEAN, sx \in BOOLEAN}

\* configurations for the sub-step sequences: every nmts vector
CfgMTS ==
    {[BaseCfg EXCEPT !.enstype = e, !.splitting = s, !.nmts = n, !.flevels = Len(n),
                     !.nbeads = nb] :
        e \in Modes, s \in ValidSplittings, n \in NmtsSet, nb \in 1..MaxBeads}

\* With the centre of mass fixed and atoms frozen, every pconstraints call
\* divides the momenta by M * nbeads again, so their denominators grow with
\* each call: those configurations are kept to the integrators with the fewest
\* calls, one bead and unit masses.
Tractable(c) ==
    (c.fixcom /\ c.fixatoms # {}) =>
        \/ c.enstype = "dummy"
        \/ c.enstype = "nve" /\ c.nbeads = 1 /\ c.m = [a \in Atoms |-> 1]

\* configurations for the momentum constraints
CfgCons ==
    {c \in {[BaseCfg EXCEPT !.enstype = e, !.splitting = s, !.nbeads = nb, !.m = m,
                            !.fixcom = fc, !.fixatoms = fa, !.p0 = p0, !.has_bias = hb] :
               e \in Modes, s \in ValidSplittings, nb \in 1..MaxBeads, m \in Masses,
               fc \in BOOLEAN, fa \in SUBSET Atoms, p0 \in 0..MaxPat, hb \in BOOLEAN} :
        Tractable(c)}

\* configurations for the zero-stress check of the barostatted integrators
CfgBaro ==
    {[BaseCfg EXCEPT !.enstype = e, !.splitting = s, !.nmts = n, !.flevels = Len(n),
                     !.verbosity_medium = vm] :
        e \in BaroModes, s \in Splittings, n \in NmtsSet, vm \in BOOLEAN}

\* configurations for the derived quantities
CfgDQ ==
    {[BaseCfg EXCEPT !.enstype = e, !.nmts = n, !.flevels = Len(n),
                     !.m = [a \in Atoms |-> a + 1]] :
        e \in {"nvt"}, n \in {<<1>>, <<1, 2>>}}

\* configurations for get_fixdof
CfgFix ==
    {[BaseCfg EXCEPT !.enstype = e, !.nbeads = nb, !.fixcom = fc, !.fixatoms = fa] :
        e \in {"nve", "dummy"}, nb \in 1..MaxFixBeads, fc \in BOOLEAN, fa \in SUBSET Atoms}

\* arguments of the constructor: the thermostat and the frozen atoms (none
\* given, or an array of atom indices, possibly empty)
CfgCtor ==
    {c \in {[BaseCfg EXCEPT !.enstype = e, !.thermostat = th, !.fixatoms = fa,
                            !.fixatoms_none = fn] :
               e \in {"nve", "nvt"}, th \in ThermostatClasses, fa \in SUBSET Atoms,
               fn \in BOOLEAN} :
        c.fixatoms_none => c.fixatoms = {}}

\* before __init__ has run
InitCtor ==
    /\ cfg \in CfgCtor
    /\ phase = "new"
    /\ p = InitMomenta(cfg)
    /\ eens = Zero
    /\ time = 0
    /\ mts_time = 0
    /\ stresscheck = FALSE
    /\ nsteps = 0
    /\ last = "new"
    /\ err = ""
    /\ hist = <<>>
    /\ dq = Unfilled
    /\ vir_zero = FALSE
    /\ out = [node |-> "none", value |-> 0, raised |-> FALSE]
    /\ nsets = 0

Init == InitWith(CfgLife)
InitBaro == InitWith(CfgBaro)
InitDQ == InitWith(CfgDQ)
InitFix == InitWith(CfgFix)
InitMTS == InitWith(CfgMTS)
InitCons == InitWith(CfgCons)

Spec == Init /\ [][Next]_vars
SpecMTS == InitMTS /\ [][Next]_vars
SpecCons == InitCons /\ [][Next]_vars
SpecBaro == InitBaro /\ [][Next]_vars
SpecDQ == InitDQ /\ [][NextDQ]_vars
SpecFix == InitFix /\ [][NextFix]_vars
SpecCtor == InitCtor /\ [][NextCtor]_vars

(***************************************************************************)
(* Properties.                                                             *)
(***************************************************************************)
Ops(h) == [i \in 1..Len(h) |-> [op |-> h[i].op, level |-> h[i].level]]
HasAt(s, i, t) == i + Len(t) - 1 <= Len(s) /\ SubSeq(s, i, i + Len(t) - 1) = t
Count(h, op, level) == Cardinality({i \in 1..Len(h) : h[i].op = op /\ h[i].level = level})
Levels == 0..(nmtslevels - 1)
StepDone == last = "step" /\ err = ""

\* The sub-steps of an event sequence: a momentum kick at a level together
\* with its constraint call, and a position drift (centroid step and free
\* propagation); any other event stands alone.
RECURSIVE GroupFrom(_, _)
GroupFrom(s, i) ==
    IF i > Len(s) THEN <<>>
    ELSE IF s[i].level >= 0 /\ HasAt(s, i, pstep(s[i].level) \o pcons)
    THEN <<[kind |-> "kick", level |-> s[i].level]>>
         \o GroupFrom(s, i + Len(pstep(s[i].level)) + 1)
    ELSE IF HasAt(s, i, qcstep \o free_qstep)
    THEN <<[kind |-> "drift", level |-> NoLevel]>> \o GroupFrom(s, i + Len(qcstep) + 1)
    ELSE <<[kind |-> s[i].op, level |-> s[i].level]>> \o GroupFrom(s, i + 1)
Group(s) == GroupFrom(s, 1)
OnlySubSteps(g) == \A i \in 1..Len(g) : g[i].kind \in {"kick", "drift"}

\* C1: for every nmts vector and level, the sub-steps of mtsprop_ab(level)
\* (kick with its constraint call, tagged by level; drift) are those of
\* mtsprop_ba(level) in reverse order, and the outer step mtsprop(0), as
\* generated and as executed by the NVE step, reads the same both ways.
C1_MtsTimeSymmetric ==
    cfg.enstype \in MTSModes =>
        /\ \A level \in Levels :
              /\ OnlySubSteps(Group(mtsprop_ab(level)))
              /\ Reverse(Group(mtsprop_ab(level))) = Group(mtsprop_ba(level))
        /\ Group(mtsprop(0)) = Reverse(Group(mtsprop(0)))
        /\ (cfg.enstype = "nve" /\ StepDone) =>
              /\ Len(hist) > 0
              /\ Group(Ops(hist)) = Reverse(Group(Ops(hist)))
C1_Witness ==
    /\ cfg.enstype = "nve" /\ cfg.nmts = <<3, 2>> /\ StepDone
    /\ Len(Group(Ops(hist))) > 8

\* C2 as stated: in one NVE outer step forces_mts(L) is invoked, one kick
\* each, prod(nmts[0..L]) times.
C2_KicksEqualProduct ==
    (cfg.enstype = "nve" /\ StepDone) =>
        \A L \in Levels : Count(hist, "kick", L) = Prod(cfg.nmts, L + 1)
\* C2 amended: in one NVE outer step forces_mts(L) is invoked, one half kick
\* each, 2 * prod(nmts[0..L]) times: twice at level 0 when nmts[0] = 1.
C2_KicksTwiceProduct ==
    (cfg.enstype = "nve" /\ StepDone) =>
        \A L \in Levels : Count(hist, "kick", L) = 2 * Prod(cfg.nmts, L + 1)
C2_Witness ==
    /\ cfg.enstype = "nve" /\ cfg.nmts = <<2, 3>> /\ StepDone
    /\ Count(hist, "kick", 1) = 12

MomentumChanging == {"kick", "sc_kick", "eda_kick", "nm_kick", "thermostat.step", "sc_half"}
FrozenComps == {i \in 1..NA3 : AtomOf(i) \in cfg.fixatoms}

\* C3: in every variant and splitting, every sub-step that changes particle
\* momenta is followed by a pconstraints call before step() returns, and the
\* frozen atoms' momenta are zero on every bead when the outer step ends.
C3_ConstrainedAtStepEnd ==
    StepDone =>
        /\ \A i \in 1..Len(hist) :
              hist[i].op \in MomentumChanging =>
                  \E j \in (i + 1)..Len(hist) : hist[j].op = "pconstraints"
        /\ \A b \in Beads : \A i \in FrozenComps : p[b][i] = Zero

\* the drift kinetic energy sum_d pcom_d^2 / (2 M nbeads) of momenta q
DriftKinetic(q) ==
    RDiv(RSum([k \in 1..3 |-> RSq(TotalMomentum(q, k - 1))], 3),
         RMul(R(2), RMul(TotalMass, R(cfg.nbeads))))
ConsCalls == {i \in 2..Len(hist) : hist[i].op = "pconstraints"}
ComFixedAt(i) ==
    /\ \A d \in Dirs : TotalMomentum(hist[i].p, d) = Zero
    /\ RSub(hist[i].eens, hist[i - 1].eens) = DriftKinetic(hist[i - 1].p)

\* C4 as stated: after every pconstraints call with centre-of-mass fixing, for
\* any frozen-atom set, the total momentum is zero in each direction and eens
\* has grown by the drift kinetic energy.
C4_ComFixedAnyFrozen == cfg.fixcom => \A i \in ConsCalls : ComFixedAt(i)
\* C4 amended: the same with no frozen atoms configured.
C4_ComFixedNoFrozen ==
    (cfg.fixcom /\ cfg.fixatoms = {}) => \A i \in ConsCalls : ComFixedAt(i)
C4_Witness ==
    /\ cfg.fixcom /\ cfg.fixatoms = {} /\ cfg.nbeads = 2 /\ cfg.m[1] = 2 /\ last = "step"
    /\ \E i \in ConsCalls : \E d \in Dirs :
          /\ TotalMomentum(hist[i - 1].p, d) # Zero
          /\ hist[i].eens # hist[i - 1].eens

\* kinetic energy of the frozen atoms' components, over all beads
FrozenKinetic(q) ==
    RSum([b \in Beads |->
            RSum([i \in 1..NA3 |-> IF i \in FrozenComps
                                   THEN RDiv(RSq(q[b][i]), R(2 * MassOf(i))) ELSE Zero], NA3)],
         cfg.nbeads)
AfterCom(i) == ComPart([p |-> hist[i - 1].p, eens |-> hist[i - 1].eens])

\* C5: after every pconstraints call with frozen atoms, their components are
\* zero on every bead, the other atoms keep the momenta the centre-of-mass
\* part left, eens has grown by the kinetic energy the frozen components held
\* just before zeroing, and kinetic energy plus ledger is unchanged by the call.
C5_FrozenZeroedAndCredited ==
    cfg.fixatoms # {} =>
        \A i \in ConsCalls :
            /\ \A b \in Beads : \A k \in 1..NA3 :
                  hist[i].p[b][k] = IF k \in FrozenComps THEN Zero ELSE AfterCom(i).p[b][k]
            /\ RSub(hist[i].eens, AfterCom(i).eens) = FrozenKinetic(AfterCom(i).p)
            /\ RAdd(Kinetic(hist[i].p), hist[i].eens)
                  = RAdd(Kinetic(hist[i - 1].p), hist[i - 1].eens)
C5_Witness ==
    /\ cfg.fixatoms = {1} /\ cfg.nbeads = 2 /\ cfg.m[1] = 2 /\ last = "step"
    /\ \E i \in ConsCalls :
          /\ hist[i - 1].p[2][Comp(1, 2)] # Zero
          /\ hist[i].p[2][Comp(1, 2)] = Zero
          /\ hist[i].eens # hist[i - 1].eens

BindOps == {"thermostat.bind", "barostat.bind", "integrator.bind", "eda.bind", "pconstraints"}

\* C6: when len(nmts) differs from forces.nmtslevels, bind raises before the
\* thermostat, barostat or integrator is bound, before the first constraint
\* application, and no step is ever taken.
C6_LevelMismatchRaisesFirst ==
    (Len(cfg.nmts) # cfg.flevels /\ phase # "constructed") =>
        /\ phase = "failed" /\ err = "nmts_levels" /\ last = "bind" /\ nsteps = 0
        /\ \A i \in 1..Len(hist) : hist[i].op \notin BindOps
        /\ p = InitMomenta(cfg) /\ eens = Zero
C6_Witness ==
    /\ Len(cfg.nmts) = 2 /\ cfg.flevels = 1 /\ err = "nmts_levels"
    /\ Ops(hist) = E("Motion.bind")

FirstAt(op) == CHOOSE i \in 1..Len(hist) : hist[i].op = op /\ \A j \in 1..(i - 1) : hist[j].op # op
Has(op) == \E i \in 1..Len(hist) : hist[i].op = op

\* C7: bind binds thermostat, then barostat, then (field-driven ensembles)
\* the EDA extension, then the integrator: integrator.bind is never invoked
\* before eda.bind has completed.
C7_EdaBoundBeforeIntegrator ==
    (last = "bind" /\ Has("integrator.bind")) =>
        /\ FirstAt("thermostat.bind") < FirstAt("barostat.bind")
        /\ FirstAt("barostat.bind") < FirstAt("integrator.bind")
        /\ eda_on => \A i \in 1..Len(hist) :
              hist[i].op = "integrator.bind" =>
                  \E j \in 1..(i - 1) : hist[j].op = "eda.bind"

\* C8: an unrecognized splitting mode is rejected at bind time in every
\* variant: bind does not return normally and no outer step is executed.
C8_BadSplittingRejectedAtBind ==
    cfg.splitting \notin ValidSplittings => (phase # "bound" /\ nsteps = 0)

\* C9 as stated: a field-driven dynamics with more than one MTS level is
\* rejected at bind time, before any outer step is attempted.
C9_EdaMtsRejectedAtBind ==
    (eda_on /\ Len(cfg.nmts) > 1) => (phase # "bound" /\ nsteps = 0)
\* C9 amended: with more than one MTS level (and as many force levels) bind
\* returns normally, and the first outer step raises before any sub-step
\* executes and without advancing the time.
C9_EdaMtsRejectedAtFirstStep ==
    (eda_on /\ Len(cfg.nmts) > 1 /\ Len(cfg.nmts) = cfg.flevels) =>
        /\ last = "bind" => (phase = "bound" /\ err = "")
        /\ last = "step" =>
              /\ phase = "failed" /\ err = "eda_mts" /\ nsteps = 1
              /\ hist = <<>> /\ time = 0
C9_Witness ==
    /\ eda_on /\ Len(cfg.nmts) = 2 /\ last = "step" /\ err = "eda_mts" /\ nsteps = 1

\* C10 as stated: bind raises when the ensemble is npt or nst and the
\* barostat is the default no-op Barostat.
C10_DefaultBarostatRejected ==
    (cfg.enstype \in {"npt", "nst"} /\ cfg.barostat = "Barostat" /\ phase # "constructed") =>
        (phase = "failed" /\ nsteps = 0)
\* C10 amended: bind raises when the ensemble is npt and the barostat is the
\* default no-op Barostat (the barostat error itself when the level counts
\* agree and the temperature is not negative).
C10_DefaultBarostatRejectedNpt ==
    (cfg.enstype = "npt" /\ cfg.barostat = "Barostat" /\ phase # "constructed") =>
        /\ phase = "failed" /\ nsteps = 0 /\ last = "bind"
        /\ err \in {"nmts_levels", "temperature", "barostat"}
        /\ (Len(cfg.nmts) = cfg.flevels /\ cfg.temp >= 0) => err = "barostat"
C10_Witness ==
    /\ cfg.enstype = "npt" /\ cfg.barostat = "Barostat" /\ cfg.pext_set
    /\ err = "barostat" /\ Has("pconstraints")

TempModes == {"nvt", "nvt-cc", "npt", "nst"}

\* C11: bind raises whenever the ensemble is nvt, nvt-cc, npt or nst and the
\* temperature is negative (the temperature error itself when the level
\* counts agree); with a temperature of zero or more that error never occurs.
C11_NegativeTemperatureRejected ==
    /\ (cfg.enstype \in TempModes /\ cfg.temp < 0 /\ phase # "constructed") =>
          /\ phase = "failed" /\ last = "bind" /\ nsteps = 0
          /\ err \in {"nmts_levels", "temperature"}
          /\ Len(cfg.nmts) = cfg.flevels => err = "temperature"
    /\ cfg.temp >= 0 => err # "temperature"
C11_Witness ==
    /\ cfg.enstype = "nvt-cc" /\ cfg.temp < 0 /\ err = "temperature" /\ Has("pconstraints")

EdaKicks == {i \in 1..Len(hist) : hist[i].op = "eda_kick"}

\* C12: for EDA-NVE with one MTS level the clock check never raises and the
\* two clocks agree after bind and after every step; within a step mts_time
\* holds the old time up to the first kick and the new time from it on.
C12_EdaClocksAgree ==
    (eda_on /\ Len(cfg.nmts) = 1 /\ cfg.flevels = 1 /\ phase # "constructed") =>
        /\ err = "" /\ phase = "bound" /\ mts_time = time
        /\ last = "step" =>
              /\ time = nsteps * cfg.dt
              /\ \E k \in EdaKicks :
                    /\ \A i \in 1..(k - 1) :
                          hist[i].op # "eda_kick" /\ hist[i].mts_time = time - cfg.dt
                    /\ \A i \in k..Len(hist) : hist[i].mts_time = time
C12_Witness ==
    /\ eda_on /\ cfg.nmts = <<3>> /\ nsteps = 2 /\ last = "step" /\ err = ""
    /\ time = 2 /\ mts_time = 2 /\ Cardinality(EdaKicks) = 6

\* C13: in an outer step of EDA-NVE the first momentum kick computes
\* EDAforces and every later kick of the step reuses the cached value.
C13_EdaForceComputedOncePerStep ==
    (eda_on /\ Len(cfg.nmts) = 1 /\ StepDone) =>
        \A i \in EdaKicks : hist[i].computed = (\A j \in EdaKicks : i <= j)

StressChecks == {i \in 1..Len(hist) : hist[i].op = "stresscheck"}

\* C14: for npt, nst and scnpt, _stresscheck is true after bind and false
\* after every kick that returned; it is true after a step only if no kick
\* has run; only the first kick of the run warns or raises on a zero virial.
C14_StressCheckOneShot ==
    cfg.enstype \in BaroModes =>
        /\ (last = "bind" /\ phase = "bound") => stresscheck
        /\ \A i \in StressChecks :
              /\ ~hist[i].stresscheck
              /\ hist[i].warn => /\ nsteps = 1 /\ vir_zero /\ ~cfg.verbosity_medium
                                 /\ \A j \in StressChecks : i <= j
        /\ (last = "step" /\ StressChecks # {}) => ~stresscheck
        /\ (last = "step" /\ stresscheck /\ err = "") => cfg.splitting \notin ValidSplittings
        /\ err = "zero_stress" =>
              /\ nsteps = 1 /\ vir_zero /\ cfg.verbosity_medium /\ StressChecks = {}
C14_Witness ==
    /\ cfg.enstype = "scnpt" /\ cfg.verbosity_medium /\ nsteps = 2 /\ StepDone
    /\ vir_zero /\ ~stresscheck /\ Cardinality(StressChecks) > 1
    /\ \A i \in StressChecks : ~hist[i].warn

\* dt / (2 * prod(nmts[0..L]))
PdtFormula(L) == norm[cfg.dt, 2 * Prod(cfg.nmts, L + 1)]
TdtFormula == IF cfg.splitting = "obabo" THEN norm[cfg.dt, 2] ELSE R(cfg.dt)
JustRead(n) == last = "read" /\ out.node = n

\* C15: after any writes to dt, splitting and nmts, a read of pdt yields
\* dt / (2 * prod(nmts[0..L])) at every level L and a read of tdt yields dt/2
\* under OBABO and dt under BAOAB, for the values then current; the kicks and
\* the thermostat of a step consume those values.
C15_PdtTdtNeverStale ==
    /\ JustRead("pdt") =>
          /\ ~out.raised
          /\ \A L \in Levels : out.value[L] = PdtFormula(L)
    /\ (JustRead("tdt") /\ cfg.splitting \in ValidSplittings) =>
          /\ ~out.raised
          /\ out.value = TdtFormula
    /\ StepDone =>
          \A i \in 1..Len(hist) :
              /\ hist[i].op = "kick" => hist[i].used = PdtFormula(hist[i].level)
              /\ hist[i].op = "thermostat.step" => hist[i].used = TdtFormula
C15_Witness ==
    /\ JustRead("pdt") /\ nsets = 2 /\ nsteps = 1 /\ cfg.dt = 2 /\ cfg.nmts = <<2, 2>>
    /\ out.value[1] = <<1, 4>> /\ ~dq["pdt"].tainted

\* C16: after any writes to dt and nmts, a read of qdt yields
\* dt / (2 * prod(nmts)) and a read of qdt_on_m yields that divided by the
\* mass of each coordinate, for the values then current.
C16_QdtNeverStale ==
    /\ JustRead("qdt") => out.value = norm[cfg.dt, 2 * inmts]
    /\ JustRead("qdt_on_m") =>
          \A i \in 1..NA3 : out.value[i] = norm[cfg.dt, 2 * inmts * MassOf(i)]

\* C17: a Dynamics.step that returns normally has run the whole integrator
\* step and advanced the time by exactly dt; the time never decreases; it is
\* unchanged when the integrator's step raised.
C17_StepAdvancesTime ==
    [][nsteps' = nsteps + 1 =>
          /\ time' >= time
          /\ err' = "" => (time' = time + cfg.dt /\ Ops(hist') = integrator_step)
          /\ err' \in {"eda_mts", "invalid_splitting", "zero_stress"} =>
                (time' = time /\ phase' = "failed")]_vars
C17_Witness ==
    /\ nsteps = 2 /\ StepDone /\ time = 2 * cfg.dt /\ Len(hist) > 0

\* C18: get_fixdof returns 3 * (number of frozen atoms) * nbeads, plus 3
\* exactly when the centre of mass is fixed (27 for 2 frozen atoms, 4 beads,
\* fixcom on), and changes nothing of the dynamics.
C18_FixdofFormula ==
    [][last' = "get_fixdof" =>
          /\ out'.value = (IF cfg.fixcom THEN 3 ELSE 0)
                          + 3 * cfg.nbeads * Cardinality(cfg.fixatoms)
          /\ (cfg.fixcom /\ cfg.nbeads = 4 /\ Cardinality(cfg.fixatoms) = 2) => out'.value = 27
          /\ UNCHANGED <<cfg, phase, p, eens, time, mts_time, stresscheck, nsteps, err,
                         hist, dq>>]_vars
C18_Witness ==
    /\ last = "get_fixdof" /\ out.value = 27 /\ cfg.nbeads = 4 /\ cfg.fixatoms = {0, 1}

PscSteps == {i \in 1..Len(hist) : hist[i].op = "barostat.pscstep"}
ScHalves == {i \in 1..Len(hist) : hist[i].op = "sc_half"}

\* C19: in the SC-NPT step, under both splittings, the first barostat.pscstep
\* is directly followed by a slow-force half-kick and the last
\* barostat.pscstep is directly preceded by one.
C19_PscstepBrackets ==
    (cfg.enstype = "scnpt" /\ cfg.splitting \in ValidSplittings /\ StepDone) =>
        /\ Cardinality(PscSteps) = 2 /\ Cardinality(ScHalves) = 2
        /\ \A a \in PscSteps :
              /\ (\A b \in PscSteps : a <= b) => (a + 1) \in ScHalves
              /\ (\A b \in PscSteps : b <= a) => (a - 1) \in ScHalves

ThermoSteps == {i \in 1..Len(hist) : hist[i].op = "thermostat.step"}

\* C20: the NVT step is, under OBABO, a thermostat step of size dt/2,
\* pconstraints, the NVE step, a thermostat step of size dt/2, pconstraints;
\* under BAOAB, the first half of the NVE step, one thermostat step of size
\* dt, pconstraints, the second half of the NVE step.
C20_NvtComposition ==
    (cfg.enstype = "nvt" /\ StepDone) =>
        LET ops == Ops(hist)
            nba == Len(mtsprop_ba(0))
            n == Len(NVEIntegrator_step)
        IN /\ cfg.splitting = "obabo" =>
                 /\ Len(ops) = n + 4
                 /\ ThermoSteps = {1, n + 3}
                 /\ ops[2].op = "pconstraints" /\ ops[n + 4].op = "pconstraints"
                 /\ SubSeq(ops, 3, n + 2) = NVEIntegrator_step
                 /\ \A i \in ThermoSteps : hist[i].used = norm[cfg.dt, 2]
           /\ cfg.splitting = "baoab" =>
                 /\ Len(ops) = n + 2
                 /\ ThermoSteps = {nba + 1}
                 /\ ops[nba + 2].op = "pconstraints"
                 /\ SubSeq(ops, 1, nba) = mtsprop_ba(0)
                 /\ SubSeq(ops, nba + 3, n + 2) = mtsprop_ab(0)
                 /\ SubSeq(ops, 1, nba) \o SubSeq(ops, nba + 3, n + 2) = NVEIntegrator_step
                 /\ \A i \in ThermoSteps : hist[i].used = R(cfg.dt)
C20_Witness ==
    /\ cfg.enstype = "nvt" /\ cfg.splitting = "baoab" /\ cfg.nmts = <<3, 2>> /\ StepDone
    /\ Cardinality(ThermoSteps) = 1

OpNames(h) == [i \in 1..Len(h) |-> h[i].op]
IsNotCons(e) == e.op # "pconstraints"
CentroidZero(q) == \A i \in 1..NA3 : CentroidSum(q, i) = Zero
OpsAt(op) == {i \in 1..Len(hist) : hist[i].op = op}

\* C21: the NVT-CC step is, constraint calls apart: thermostat step, credit
\* of the centroid kinetic energy to the ledger and centroid zeroing, kick,
\* centroid zeroing, one free-propagation drift, kick, centroid zeroing,
\* thermostat step, credit and zeroing; each credit is the centroid kinetic
\* energy the zeroing removes; the centroid momentum is zero at the drift and
\* when the step returns; qcstep is not called.
C21_NvtccComposition ==
    (cfg.enstype = "nvt-cc" /\ StepDone) =>
        /\ OpNames(SelectSeq(Ops(hist), IsNotCons))
              = <<"thermostat.step", "credit_centroid", "zero_centroid",
                  "nm_kick", "zero_centroid", "nm.free_qstep",
                  "nm_kick", "zero_centroid",
                  "thermostat.step", "credit_centroid", "zero_centroid">>
        /\ \A i \in OpsAt("credit_centroid") :
              /\ i > 1 /\ i < Len(hist)
              /\ RSub(hist[i].eens, hist[i - 1].eens) = CentroidKinetic(hist[i - 1].p)
              /\ hist[i + 1].op = "zero_centroid"
        /\ \A i \in OpsAt("zero_centroid") : CentroidZero(hist[i].p)
        /\ \A i \in OpsAt("nm.free_qstep") : CentroidZero(hist[i].p)
        /\ CentroidZero(p)
        /\ OpsAt("qcstep") = {} /\ OpsAt("barostat.qcstep") = {}
C21_Witness ==
    /\ cfg.enstype = "nvt-cc" /\ StepDone /\ cfg.nbeads = 2 /\ cfg.fixcom
    /\ \A i \in OpsAt("credit_centroid") : hist[i].eens # hist[i - 1].eens
    /\ \A i \in OpsAt("nm_kick") : ~CentroidZero(hist[i].p)
    /\ Cardinality(OpsAt("nm.free_qstep")) = 1

\* C22: in the NPT and NST step every particle kick at level L directly
\* follows one barostat.pstep(L) and every barostat.pstep(L) is directly
\* followed by the particle kick at L; every centroid drift is
\* barostat.qcstep, never the particle qcstep; every thermostat.step is
\* directly followed by barostat.thermostat.step, which occurs nowhere else
\* (under a valid splitting the step has kicks and a thermostat sub-step).
C22_BarostatAccompaniesNpt ==
    (cfg.enstype \in {"npt", "nst"} /\ StepDone) =>
        /\ \A i \in OpsAt("kick") :
              i > 1 /\ hist[i - 1].op = "barostat.pstep" /\ hist[i - 1].level = hist[i].level
        /\ \A i \in OpsAt("barostat.pstep") :
              i < Len(hist) /\ hist[i + 1].op = "kick" /\ hist[i + 1].level = hist[i].level
        /\ \A L \in Levels :
              /\ Count(hist, "barostat.pstep", L) = Count(hist, "kick", L)
              /\ cfg.splitting \in ValidSplittings =>
                    Count(hist, "kick", L) = 2 * Prod(cfg.nmts, L + 1)
        /\ OpsAt("qcstep") = {}
        /\ \A i \in OpsAt("nm.free_qstep") : i > 1 /\ hist[i - 1].op = "barostat.qcstep"
        /\ \A i \in OpsAt("barostat.qcstep") : i < Len(hist) /\ hist[i + 1].op = "nm.free_qstep"
        /\ \A i \in OpsAt("thermostat.step") :
              i < Len(hist) /\ hist[i + 1].op = "barostat.thermostat.step"
        /\ \A i \in OpsAt("barostat.thermostat.step") :
              i > 1 /\ hist[i - 1].op = "thermostat.step"
        /\ cfg.splitting \in ValidSplittings => OpsAt("thermostat.step") # {}
C22_Witness ==
    /\ cfg.enstype = "nst" /\ cfg.splitting = "baoab" /\ cfg.nmts = <<3, 2>> /\ StepDone
    /\ Count(hist, "barostat.pstep", 1) = 12
    /\ Cardinality(OpsAt("barostat.qcstep")) = 12
    /\ Cardinality(OpsAt("barostat.thermostat.step")) = 1

RECURSIVE UsedUpTo(_, _)
\* the sum of the step sizes consumed by the events of hist[1..n] whose index is in S
UsedUpTo(S, n) ==
    IF n = 0 THEN Zero
    ELSE IF n \in S THEN RAdd(hist[n].used, UsedUpTo(S, n - 1))
    ELSE UsedUpTo(S, n - 1)
UsedSum(S) == UsedUpTo(S, Len(hist))

\* C23: in every variant that propagates positions and for every nmts vector,
\* each nm.free_qstep of an outer step advances by qdt = dt / (2 * prod(nmts))
\* and the steps of all the calls add up to dt.
C23_FreePropagationSumsToDt ==
    (cfg.enstype # "dummy" /\ StepDone) =>
        /\ \A i \in OpsAt("nm.free_qstep") : hist[i].used = norm[cfg.dt, 2 * inmts]
        /\ UsedSum(OpsAt("nm.free_qstep")) = R(cfg.dt)

ThermoModes == {"nvt", "nvt-cc", "npt", "nst", "sc", "scnpt"}

\* C24: in every thermostatted variant and under both splittings, the steps
\* tdt of the thermostat.step calls of one outer step add up to dt: two calls
\* of dt/2 under OBABO, one call of dt under BAOAB.
C24_ThermostatSumsToDt ==
    (cfg.enstype \in ThermoModes /\ cfg.splitting \in ValidSplittings /\ StepDone) =>
        /\ UsedSum(OpsAt("thermostat.step")) = R(cfg.dt)
        /\ cfg.splitting = "obabo" =>
              /\ Cardinality(OpsAt("thermostat.step")) = 2
              /\ \A i \in OpsAt("thermostat.step") : hist[i].used = norm[cfg.dt, 2]
        /\ cfg.splitting = "baoab" =>
              /\ Cardinality(OpsAt("thermostat.step")) = 1
              /\ \A i \in OpsAt("thermostat.step") : hist[i].used = R(cfg.dt)

KicksAt(L) == {i \in 1..Len(hist) : hist[i].op \in {"kick", "sc_kick"} /\ hist[i].level = L}

\* C25: for every nmts vector and every level L, each level-L momentum kick
\* of an outer step has size pdt[L] = dt / (2 * prod(nmts[0..L])), there are
\* 2 * prod(nmts[0..L]) of them, and their sizes add up to dt.
C25_KicksSumToDt ==
    (cfg.enstype \in MTSModes /\ StepDone) =>
        \A L \in Levels :
            /\ \A i \in KicksAt(L) : hist[i].used = PdtFormula(L)
            /\ Cardinality(KicksAt(L)) = 2 * Prod(cfg.nmts, L + 1)
            /\ UsedSum(KicksAt(L)) = R(cfg.dt)
C25_Witness ==
    /\ cfg.enstype = "nve" /\ cfg.nmts = <<3, 2>> /\ StepDone
    /\ Cardinality(KicksAt(0)) = 6 /\ Cardinality(KicksAt(1)) = 12
    /\ \A i \in KicksAt(1) : hist[i].used = <<1, 12>>

Registrations ==
    {"add_econs:ethermo", "add_econs:ebaro", "add_xlpot:pot", "add_xlpot:cell_jacobian",
     "add_xlkin:kin"}
ScRegistrations == {"add_econs:potsc", "add_xlpot:potsc"}

\* C26: a bind that returns has, for every ensemble mode, added ethermo and
\* ebaro (add_econs), pot and cell_jacobian (add_xlpot) and kin (add_xlkin)
\* to the ensemble exactly once each, and for the Suzuki-Chin variants potsc
\* exactly once by add_econs and once by add_xlpot (never for the others).
C26_EnergyTermsRegisteredOnce ==
    (last = "bind" /\ phase = "bound") =>
        /\ \A r \in Registrations : Cardinality(OpsAt(r)) = 1
        /\ \A r \in ScRegistrations :
              Cardinality(OpsAt(r)) = IF cfg.enstype \in SCModes THEN 1 ELSE 0

Drifts == {"qcstep", "barostat.qcstep", "nm.free_qstep"}
ChangesMomenta == MomentumChanging \cup {"zero_centroid"}

\* C27: in every variant, splitting and nmts vector, in the first outer step
\* and in the next, every position drift is preceded within its step by a
\* pconstraints call with no momentum-changing sub-step between the two: no
\* drift runs on momenta changed since they were last constrained, whatever
\* the previous step left.
C27_NoDriftOnUnconstrainedMomenta ==
    StepDone =>
        \A i \in 1..Len(hist) :
            hist[i].op \in Drifts =>
                \E j \in 1..(i - 1) :
                    /\ hist[j].op = "pconstraints"
                    /\ \A k \in (j + 1)..(i - 1) : hist[k].op \notin ChangesMomenta
C27_Witness ==
    /\ cfg.enstype = "sc" /\ cfg.splitting = "baoab" /\ cfg.nmts = <<3, 2>>
    /\ nsteps = 2 /\ StepDone
    /\ hist[1].op = "sc_half" /\ hist[Len(hist)].op = "sc_half"
    /\ Cardinality({i \in 1..Len(hist) : hist[i].op \in Drifts}) = 24

GlobalThermostats == {"ThermoPILE_G", "ThermoNMGLEG"}

\* C28: the constructor ends in the incompatible-thermostat error exactly
\* when the frozen-atom set is not empty and the thermostat's class is
\* ThermoPILE_G or ThermoNMGLEG.
C28_GlobalThermostatRejected ==
    phase # "new" =>
        ((cfg.thermostat \in GlobalThermostats /\ cfg.fixatoms # {})
            <=> err = "incompatible_thermostat")

====
